---- MODULE Spec2Model ----
(***************************************************************************)
(* git-branch-graph: the ancestry-closure and transitive-reduction engine  *)
(* of Repository::run (src/src/repository.rs), with the memoising          *)
(* merge-base adapter and the graph printer.                               *)
(*                                                                         *)
(* A Commit is modelled by a positive integer; the integer order stands    *)
(* for the derived Ord on Commit(String) that merge_base canonicalises     *)
(* pairs with.  `git merge-base` is the external oracle: for every         *)
(* canonical pair it has a set of outcomes it can answer with.             *)
(***************************************************************************)
EXTENDS Integers, Sequences, FiniteSets, TLC

\* Number of commits of the repositories whose history is an ancestry order.
NumCommits == 3
\* Number of commits of the repositories whose oracle answers arbitrarily.
NumAnyCommits == 2
\* Depth of nested prune_children / prune_parents calls the stack can hold.
StackLimit == 7
\* Number of commits of the repositories whose leaves are taken in any order.
NumOrderCommits == 4

\* The outcome of `git merge-base` exiting non-zero: `.read()?` returns Err.
NoBase == 0

Commits == 1..NumCommits
AnyCommits == 1..NumAnyCommits

\* let (lhs, rhs) = if rhs > lhs { (rhs, lhs) } else { (lhs, rhs) };
Canon(lhs, rhs) == IF rhs > lhs THEN <<rhs, lhs>> ELSE <<lhs, rhs>>

CanonPairs(U) == {Canon(a, b) : a \in U, b \in U}

(***************************************************************************)
(* Repository histories.  A history is a strict ancestry order, the set of *)
(* pairs <<ancestor, descendant>>: irreflexive and transitive.             *)
(***************************************************************************)
OffDiagonal == {p \in Commits \X Commits : p[1] # p[2]}

Histories ==
    {h \in SUBSET OffDiagonal :
        /\ \A p \in h : <<p[2], p[1]>> \notin h
        /\ \A p \in h, q \in h : p[2] = q[1] => <<p[1], q[2]>> \in h}

\* The ancestors of c, c included.
Ancestors(h, c) == {c} \cup {a \in Commits : <<a, c>> \in h}

\* What `git merge-base a b` can print: a best common ancestor, one that is
\* no ancestor of another common ancestor; with none, the command fails.
GitMergeBase(h, a, b) ==
    LET common == Ancestors(h, a) \cap Ancestors(h, b)
        best == {c \in common : \A d \in common : <<c, d>> \notin h}
    IN  IF common = {} THEN {NoBase} ELSE best

VARIABLES
    oracle,             \* canonical pair -> the outcomes git merge-base can give
    id_to_branches,     \* the keys of Repository::id_to_branches (the tips)
    nodes_to_children,  \* Repository::nodes_to_children
    nodes_to_parents,   \* Repository::nodes_to_parents
    merge_bases,        \* Repository::merge_bases (the memo)
    calls,              \* canonical pair -> number of git merge-base runs
    returned,           \* <<lhs, rhs>> -> what merge_base(lhs, rhs) returned
    raw_children,       \* nodes_to_children as closure construction left it
    new_nodes,          \* the worklist of run
    new_node,           \* the entry popped by `while let Some(new_node)`
    keys,               \* the part of the `keys` snapshot not yet iterated
    stack,              \* the frames of the recursive prune calls
    leaves,             \* the sorted leaves not yet pruned
    output,             \* what println! has written
    pass,               \* how often the reducer has been started
    pc,                 \* where the program stands
    refs,               \* what `git rev-list --max-count=1 <name>` answers
    config,             \* the [branch "<name>"] sections of .git/config
    remote,             \* Repository::remote
    cli_branches,       \* Cli::branches
    branch_names,       \* Repository::branch_names
    pending,            \* the branches the running `for branch in` has left
    unresolved          \* the name whose rev-list failed, if one did

vars == <<oracle, id_to_branches, nodes_to_children, nodes_to_parents,
          merge_bases, calls, returned, raw_children, new_nodes, new_node, keys,
          stack, leaves, output, pass, pc, refs, config, remote, cli_branches,
          branch_names, pending, unresolved>>

\* What branch resolution reads and writes besides id_to_branches.
resolution == <<refs, config, remote, cli_branches, branch_names, pending,
                unresolved>>
\* The repository and the branches: the graph engine reads them and never
\* writes them.
input == <<oracle, id_to_branches, resolution>>
\* The memo of merge_base and the record of its calls.
memo == <<merge_bases, calls, returned>>
\* The locals of the closure loop.
worklist == <<new_nodes, new_node, keys>>

Universe == {p[1] : p \in DOMAIN oracle}

EmptyMap == [x \in {} |-> {}]
NoOutput == [header |-> FALSE, nodes |-> {}, edges |-> {}, footer |-> FALSE]

\* HashMap::insert
Insert(map, k, v) == [x \in (DOMAIN map) \cup {k} |-> IF x = k THEN v ELSE map[x]]

\* The orders an unordered collection can be iterated in.
Orderings(S) ==
    {s \in [1..Cardinality(S) -> S] : \A i, j \in 1..Cardinality(S) : s[i] = s[j] => i = j}

\* A branch name is the sequence of its path components.
NoBranch == <<>>

\* The name the branch at tip n was given on the command line.
TipName(n) == <<"tip", n>>

\* The names of the tips S, by ascending tip.
TipNames(S) ==
    [i \in 1..Cardinality(S) |->
        TipName(CHOOSE n \in S : Cardinality({m \in S : m < n}) = i - 1)]

\* try_from has resolved one command-line branch per tip, without --remote.
ResolvedFromCli ==
    /\ cli_branches = TipNames(id_to_branches)
    /\ branch_names = cli_branches
    /\ refs = [b \in {TipName(n) : n \in id_to_branches} |-> b[2]]
    /\ config = <<>>
    /\ remote = FALSE
    /\ pending = <<>>
    /\ unresolved = NoBranch

\* The fields and locals of the graph engine before run has touched them.
InitRun ==
    /\ nodes_to_children = EmptyMap
    /\ nodes_to_parents = EmptyMap
    /\ merge_bases = EmptyMap
    /\ calls = [p \in DOMAIN oracle |-> 0]
    /\ returned = EmptyMap
    /\ raw_children = EmptyMap
    /\ new_nodes = <<>>
    /\ new_node = NoBase
    /\ keys = {}
    /\ stack = <<>>
    /\ leaves = <<>>
    /\ output = NoOutput
    /\ pass = 1

InitCommon ==
    /\ id_to_branches \in SUBSET Universe
    /\ ResolvedFromCli
    /\ InitRun
    /\ pc = "new"

\* A repository whose commits form an ancestry order.
Init ==
    /\ \E h \in Histories :
          oracle = [p \in CanonPairs(Commits) |-> GitMergeBase(h, p[1], p[2])]
    /\ InitCommon

\* A repository whose merge-base answers are arbitrary.
InitAny ==
    /\ oracle = [p \in CanonPairs(AnyCommits) |-> AnyCommits \cup {NoBase}]
    /\ InitCommon


\* merge_base with the memo looked up and filled under the pair as requested.
MergeBaseUncanon(lhs, rhs, value) ==
    LET p == Canon(lhs, rhs) IN
    IF <<lhs, rhs>> \in DOMAIN merge_bases
    THEN /\ value = merge_bases[<<lhs, rhs>>]
         /\ returned' = Insert(returned, <<lhs, rhs>>, value)
         /\ UNCHANGED <<merge_bases, calls>>
    ELSE /\ value \in oracle[p]
         /\ calls' = [calls EXCEPT ![p] = @ + 1]
         /\ returned' = Insert(returned, <<lhs, rhs>>, value)
         /\ merge_bases' = IF value = NoBase THEN merge_bases
                           ELSE Insert(merge_bases, <<lhs, rhs>>, value)

(***************************************************************************)
(* merge_base: the memoising adapter around `git merge-base`.  value is    *)
(* what the call returns, NoBase standing for Err.                         *)
(***************************************************************************)
MergeBase(lhs, rhs, value) ==
    LET p == Canon(lhs, rhs) IN
    IF p \in DOMAIN merge_bases
    THEN /\ value = merge_bases[p]
         /\ returned' = Insert(returned, <<lhs, rhs>>, value)
         /\ UNCHANGED <<merge_bases, calls>>
    ELSE /\ value \in oracle[p]
         /\ calls' = [calls EXCEPT ![p] = @ + 1]
         /\ returned' = Insert(returned, <<lhs, rhs>>, value)
         /\ merge_bases' = IF value = NoBase THEN merge_bases
                           ELSE Insert(merge_bases, p, value)

(***************************************************************************)
(* run, closure construction.                                              *)
(***************************************************************************)
\* run, lines 81-91: the worklist and the empty entries of the tips.
Start ==
    /\ pc = "new"
    /\ new_nodes' \in Orderings(id_to_branches)
    /\ nodes_to_children' = [n \in id_to_branches |-> {}]
    /\ nodes_to_parents' = [n \in id_to_branches |-> {}]
    /\ pc' = "closure"
    /\ UNCHANGED <<input, memo, raw_children, new_node, keys, stack, leaves,
                   output, pass>>

\* while let Some(new_node) = new_nodes.pop_front() { let keys = ... }
PopFront ==
    /\ pc = "closure"
    /\ keys = {}
    /\ new_nodes # <<>>
    /\ new_node' = Head(new_nodes)
    /\ new_nodes' = Tail(new_nodes)
    /\ keys' = DOMAIN nodes_to_children
    /\ UNCHANGED <<input, memo, raw_children, nodes_to_children, nodes_to_parents,
                   stack, leaves, output, pass, pc>>

\* Lines 98-111 without the `base != node` and `base != new_node` tests.
ChildrenAfterNoGuard(children_map, base, node, nn) ==
    LET m == IF base \notin DOMAIN children_map
             THEN Insert(children_map, base, {}) ELSE children_map
    IN  [m EXCEPT ![base] = @ \cup {node, nn}]

\* Lines 98-111: the descendant map after one pair.
ChildrenAfter(children_map, base, node, nn) ==
    LET m == IF base \notin DOMAIN children_map
             THEN Insert(children_map, base, {}) ELSE children_map
    IN  [m EXCEPT ![base] = @ \cup (IF base # node THEN {node} ELSE {})
                              \cup (IF base # nn THEN {nn} ELSE {})]

\* Lines 113-131 with line 129 inserting node, not base, as the parent of
\* new_node.
ParentsAfterWrongParent(parents_map, base, node, nn) ==
    LET m1 == IF node \notin DOMAIN parents_map
              THEN Insert(parents_map, node, {}) ELSE parents_map
        m2 == IF node # base THEN [m1 EXCEPT ![node] = @ \cup {base}] ELSE m1
        m3 == IF nn \notin DOMAIN m2 THEN Insert(m2, nn, {}) ELSE m2
    IN  IF nn # base THEN [m3 EXCEPT ![nn] = @ \cup {node}] ELSE m3

\* Lines 113-131 without the `node != base` and `new_node != base` tests.
ParentsAfterNoGuard(parents_map, base, node, nn) ==
    LET m1 == IF node \notin DOMAIN parents_map
              THEN Insert(parents_map, node, {}) ELSE parents_map
        m2 == [m1 EXCEPT ![node] = @ \cup {base}]
        m3 == IF nn \notin DOMAIN m2 THEN Insert(m2, nn, {}) ELSE m2
    IN  [m3 EXCEPT ![nn] = @ \cup {base}]

\* Lines 113-131 without the two `contains_key` tests and their inserts: a
\* parent is recorded only for a commit that has an entry already.
ParentsAfterNoInsert(parents_map, base, node, nn) ==
    LET m2 == IF node # base /\ node \in DOMAIN parents_map
              THEN [parents_map EXCEPT ![node] = @ \cup {base}] ELSE parents_map
    IN  IF nn # base /\ nn \in DOMAIN m2
        THEN [m2 EXCEPT ![nn] = @ \cup {base}] ELSE m2

\* Lines 113-131 without lines 117-121 and 127-131: no parent is recorded.
ParentsAfterNoParents(parents_map, base, node, nn) ==
    LET m1 == IF node \notin DOMAIN parents_map
              THEN Insert(parents_map, node, {}) ELSE parents_map
    IN  IF nn \notin DOMAIN m1 THEN Insert(m1, nn, {}) ELSE m1

\* Lines 113-131: the ancestor map after one pair.
ParentsAfter(parents_map, base, node, nn) ==
    LET m1 == IF node \notin DOMAIN parents_map
              THEN Insert(parents_map, node, {}) ELSE parents_map
        m2 == IF node # base THEN [m1 EXCEPT ![node] = @ \cup {base}] ELSE m1
        m3 == IF nn \notin DOMAIN m2 THEN Insert(m2, nn, {}) ELSE m2
    IN  IF nn # base THEN [m3 EXCEPT ![nn] = @ \cup {base}] ELSE m3

\* Lines 95-132 with the error of merge_base dropped instead of returned:
\* the pair is skipped.
ClosureStepSwallow ==
    /\ pc = "closure"
    /\ keys # {}
    /\ \E node \in keys, base \in Universe \cup {NoBase} :
          /\ MergeBase(new_node, node, base)
          /\ IF base = NoBase
             THEN UNCHANGED <<nodes_to_children, nodes_to_parents, new_nodes>>
             ELSE /\ new_nodes' = IF base \notin DOMAIN nodes_to_children
                                  THEN Append(new_nodes, base) ELSE new_nodes
                  /\ nodes_to_children' = ChildrenAfter(nodes_to_children, base, node, new_node)
                  /\ nodes_to_parents' = ParentsAfter(nodes_to_parents, base, node, new_node)
          /\ keys' = keys \ {node}
          /\ pc' = pc
    /\ UNCHANGED <<input, raw_children, new_node, stack, leaves, output, pass>>

\* Lines 95-132 without the `contains_key(&base)` test of line 98: the base
\* is appended to the worklist for every pair.
ClosureStepAlwaysPush ==
    /\ pc = "closure"
    /\ keys # {}
    /\ \E node \in keys, base \in Universe \cup {NoBase} :
          /\ MergeBase(new_node, node, base)
          /\ IF base = NoBase
             THEN /\ pc' = "failed"
                  /\ UNCHANGED <<nodes_to_children, nodes_to_parents, new_nodes, keys>>
             ELSE /\ new_nodes' = Append(new_nodes, base)
                  /\ nodes_to_children' = ChildrenAfter(nodes_to_children, base, node, new_node)
                  /\ nodes_to_parents' = ParentsAfter(nodes_to_parents, base, node, new_node)
                  /\ keys' = keys \ {node}
                  /\ pc' = pc
    /\ UNCHANGED <<input, raw_children, new_node, stack, leaves, output, pass>>

\* Lines 95-132 without line 101: a new base is never put on the worklist.
ClosureStepNoPush ==
    /\ pc = "closure"
    /\ keys # {}
    /\ \E node \in keys, base \in Universe \cup {NoBase} :
          /\ MergeBase(new_node, node, base)
          /\ IF base = NoBase
             THEN /\ pc' = "failed"
                  /\ UNCHANGED <<nodes_to_children, nodes_to_parents, new_nodes, keys>>
             ELSE /\ new_nodes' = new_nodes
                  /\ nodes_to_children' = ChildrenAfter(nodes_to_children, base, node, new_node)
                  /\ nodes_to_parents' = ParentsAfter(nodes_to_parents, base, node, new_node)
                  /\ keys' = keys \ {node}
                  /\ pc' = pc
    /\ UNCHANGED <<input, raw_children, new_node, stack, leaves, output, pass>>

\* One iteration of `for node in keys`, lines 95-132.
ClosureStep ==
    /\ pc = "closure"
    /\ keys # {}
    /\ \E node \in keys, base \in Universe \cup {NoBase} :
          /\ MergeBase(new_node, node, base)
          /\ IF base = NoBase
             THEN /\ pc' = "failed"
                  /\ UNCHANGED <<nodes_to_children, nodes_to_parents, new_nodes, keys>>
             ELSE /\ new_nodes' = IF base \notin DOMAIN nodes_to_children
                                  THEN Append(new_nodes, base) ELSE new_nodes
                  /\ nodes_to_children' = ChildrenAfter(nodes_to_children, base, node, new_node)
                  /\ nodes_to_parents' = ParentsAfter(nodes_to_parents, base, node, new_node)
                  /\ keys' = keys \ {node}
                  /\ pc' = pc
    /\ UNCHANGED <<input, raw_children, new_node, stack, leaves, output, pass>>

(***************************************************************************)
(* The recursive passes.  A frame is a call of prune_children or           *)
(* prune_parents that has replaced its node's entry and has still to       *)
(* recurse into the members of todo.                                       *)
(***************************************************************************)
\* The retain closure keeping every member.
RetainedAll(map, all) == all

\* The retain closure with its two results exchanged.
RetainedInverted(map, all) ==
    {node \in all : \E other \in all \ {node} : node \in map[other]}

\* The retain closure of prune_children and prune_parents.
Retained(map, all) ==
    {node \in all : \A other \in all \ {node} : node \notin map[other]}

\* Every get(..).unwrap() of a call on n finds its key.
LookupsOk(map, n) ==
    /\ n \in DOMAIN map
    /\ Cardinality(map[n]) >= 2 => map[n] \subseteq DOMAIN map

\* The entry of n after the retain and the insert.
Pruned(map, n) == Insert(map, n, Retained(map, map[n]))

Top == stack[Len(stack)]
Pop == SubSeq(stack, 1, Len(stack) - 1)
Taken(child) ==
    [stack EXCEPT ![Len(stack)] = [node |-> Top.node, todo |-> Top.todo \ {child}]]

\* fn prune_children, lines 183-198, called on parent from the frames stk.
CallPruneChildren(stk, parent) ==
    IF ~LookupsOk(nodes_to_children, parent)
    THEN /\ pc' = "panic"
         /\ UNCHANGED <<nodes_to_children, stack>>
    ELSE IF Len(stk) >= StackLimit
    THEN /\ pc' = "overflow"
         /\ UNCHANGED <<nodes_to_children, stack>>
    ELSE /\ nodes_to_children' = Pruned(nodes_to_children, parent)
         /\ stack' = Append(stk, [node |-> parent, todo |-> nodes_to_children[parent]])
         /\ pc' = "prune_children"

\* prune_parents without the retain of lines 209-219: line 221 inserts
\* all_parents back.
CallPruneParentsNoRetain(stk, child) ==
    IF ~LookupsOk(nodes_to_parents, child)
    THEN /\ pc' = "panic"
         /\ UNCHANGED <<nodes_to_parents, stack>>
    ELSE IF Len(stk) >= StackLimit
    THEN /\ pc' = "overflow"
         /\ UNCHANGED <<nodes_to_parents, stack>>
    ELSE /\ nodes_to_parents' = Insert(nodes_to_parents, child, nodes_to_parents[child])
         /\ stack' = Append(stk, [node |-> child, todo |-> nodes_to_parents[child]])
         /\ pc' = "prune_parents"

\* fn prune_parents, lines 205-221, called on child from the frames stk.
CallPruneParents(stk, child) ==
    IF ~LookupsOk(nodes_to_parents, child)
    THEN /\ pc' = "panic"
         /\ UNCHANGED <<nodes_to_parents, stack>>
    ELSE IF Len(stk) >= StackLimit
    THEN /\ pc' = "overflow"
         /\ UNCHANGED <<nodes_to_parents, stack>>
    ELSE /\ nodes_to_parents' = Pruned(nodes_to_parents, child)
         /\ stack' = Append(stk, [node |-> child, todo |-> nodes_to_parents[child]])
         /\ pc' = "prune_parents"

\* run, lines 135-145: the root, and the first call of prune_children.
SelectRoot ==
    /\ pc = "closure"
    /\ keys = {}
    /\ new_nodes = <<>>
    /\ LET roots == {n \in DOMAIN nodes_to_parents : nodes_to_parents[n] = {}} IN
       IF roots = {}
       THEN /\ pc' = "failed"
            /\ UNCHANGED <<nodes_to_children, stack>>
       ELSE \E oldest \in roots : CallPruneChildren(stack, oldest)
    /\ raw_children' = IF pass = 1 THEN nodes_to_children ELSE raw_children
    /\ UNCHANGED <<input, memo, nodes_to_parents, worklist, leaves, output, pass>>

\* for child in all_children { self.prune_children(child); }
PruneChildrenRecurse ==
    /\ pc = "prune_children"
    /\ stack # <<>>
    /\ \E child \in Top.todo : CallPruneChildren(Taken(child), child)
    /\ UNCHANGED <<input, memo, raw_children, nodes_to_parents, worklist, leaves,
                   output, pass>>

\* The end of a prune_children call.
PruneChildrenReturn ==
    /\ pc = "prune_children"
    /\ stack # <<>>
    /\ Top.todo = {}
    /\ stack' = Pop
    /\ UNCHANGED <<input, memo, raw_children, nodes_to_children, nodes_to_parents,
                   worklist, leaves, output, pass, pc>>

\* leaves.sort_by_key(|leaf| self.nodes_to_parents.get(leaf).map(|p| p.len()))
SortKey(leaf) ==
    IF leaf \in DOMAIN nodes_to_parents THEN Cardinality(nodes_to_parents[leaf]) ELSE -1

\* run, lines 147-160: the leaves, in ascending number of parents.
SelectLeaves ==
    /\ pc = "prune_children"
    /\ stack = <<>>
    /\ LET found == {n \in DOMAIN nodes_to_children : nodes_to_children[n] = {}} IN
       leaves' \in {s \in Orderings(found) :
                      \A i, j \in 1..Len(s) : i < j => SortKey(s[i]) <= SortKey(s[j])}
    /\ pc' = "prune_parents"
    /\ UNCHANGED <<input, memo, raw_children, nodes_to_children, nodes_to_parents,
                   worklist, stack, output, pass>>

\* The call of a prune_parents whose line 221 inserts the retained parents
\* into nodes_to_children instead of nodes_to_parents.
PruneParentsLeafWrongMap ==
    /\ pc = "prune_parents"
    /\ stack = <<>>
    /\ leaves # <<>>
    /\ leaves' = Tail(leaves)
    /\ LookupsOk(nodes_to_parents, Head(leaves))
    /\ nodes_to_children' =
          Insert(nodes_to_children, Head(leaves),
                 Retained(nodes_to_parents, nodes_to_parents[Head(leaves)]))
    /\ stack' = Append(stack, [node |-> Head(leaves),
                               todo |-> nodes_to_parents[Head(leaves)]])
    /\ UNCHANGED <<input, memo, raw_children, nodes_to_parents, worklist, output,
                   pass, pc>>

\* for leaf in &leaves { self.prune_parents(leaf.clone()); }
PruneParentsLeaf ==
    /\ pc = "prune_parents"
    /\ stack = <<>>
    /\ leaves # <<>>
    /\ leaves' = Tail(leaves)
    /\ CallPruneParents(stack, Head(leaves))
    /\ UNCHANGED <<input, memo, raw_children, nodes_to_children, worklist, output,
                   pass>>

\* for parent in all_parents { self.prune_parents(parent); }
PruneParentsRecurse ==
    /\ pc = "prune_parents"
    /\ stack # <<>>
    /\ \E parent \in Top.todo : CallPruneParents(Taken(parent), parent)
    /\ UNCHANGED <<input, memo, raw_children, nodes_to_children, worklist, leaves,
                   output, pass>>

\* The end of a prune_parents call.
PruneParentsReturn ==
    /\ pc = "prune_parents"
    /\ stack # <<>>
    /\ Top.todo = {}
    /\ stack' = Pop
    /\ UNCHANGED <<input, memo, raw_children, nodes_to_children, nodes_to_parents,
                   worklist, leaves, output, pass, pc>>

(***************************************************************************)
(* run, lines 166-180: the digraph.  ids numbers the keys in the order the *)
(* map iterates them.                                                      *)
(***************************************************************************)
PrintGraph ==
    /\ pc = "prune_parents"
    /\ stack = <<>>
    /\ leaves = <<>>
    /\ \E ids \in Orderings(DOMAIN nodes_to_children) :
          LET id(n) == CHOOSE i \in 1..Len(ids) : ids[i] = n
              declared == {<<id(n) - 1, n>> : n \in DOMAIN nodes_to_children}
              known == {e \in (DOMAIN nodes_to_children) \X (DOMAIN nodes_to_children) :
                          e[2] \in nodes_to_children[e[1]]}
              lines == {<<id(e[1]) - 1, id(e[2]) - 1>> : e \in known}
          IN  IF \A n \in DOMAIN nodes_to_children :
                    nodes_to_children[n] \subseteq DOMAIN nodes_to_children
              THEN /\ output' = [header |-> TRUE, nodes |-> declared,
                                 edges |-> lines, footer |-> TRUE]
                   /\ pc' = "done"
              ELSE /\ \E printed \in SUBSET lines :
                         output' = [header |-> TRUE, nodes |-> declared,
                                    edges |-> printed, footer |-> FALSE]
                   /\ pc' = "panic"
    /\ UNCHANGED <<input, memo, raw_children, nodes_to_children, nodes_to_parents,
                   worklist, stack, leaves, pass>>

\* The reducer (lines 135-164) started once more on the maps it has produced.
ReduceAgain ==
    /\ pc = "prune_parents"
    /\ stack = <<>>
    /\ leaves = <<>>
    /\ pass = 1
    /\ pass' = 2
    /\ pc' = "closure"
    /\ UNCHANGED <<input, memo, raw_children, nodes_to_children, nodes_to_parents,
                   worklist, stack, leaves, output>>

Next ==
    \/ Start
    \/ PopFront
    \/ ClosureStep
    \/ SelectRoot
    \/ PruneChildrenRecurse
    \/ PruneChildrenReturn
    \/ SelectLeaves
    \/ PruneParentsLeaf
    \/ PruneParentsRecurse
    \/ PruneParentsReturn
    \/ PrintGraph

Spec == Init /\ [][Next]_vars

SpecAny == InitAny /\ [][Next]_vars

\* The runs in which the reducer is applied a second time before printing.
NextTwice == Next \/ ReduceAgain

SpecTwice == Init /\ [][NextTwice]_vars


(***************************************************************************)
(* The runs in which run takes the leaves as the map iterates them,        *)
(* without the sort of line 160, in repositories large enough to have      *)
(* leaves with different numbers of parents.                               *)
(***************************************************************************)
OrderCommits == 1..NumOrderCommits

OrderHistories ==
    {h \in SUBSET {p \in OrderCommits \X OrderCommits : p[1] # p[2]} :
        /\ \A p \in h : <<p[2], p[1]>> \notin h
        /\ \A p \in h, q \in h : p[2] = q[1] => <<p[1], q[2]>> \in h}

\* GitMergeBase over the commits of OrderCommits.
OrderMergeBase(h, a, b) ==
    LET up(c) == {c} \cup {x \in OrderCommits : <<x, c>> \in h}
        common == up(a) \cap up(b)
        best == {c \in common : \A d \in common : <<c, d>> \notin h}
    IN  IF common = {} THEN {NoBase} ELSE best

InitOrder ==
    /\ \E h \in OrderHistories :
          oracle = [p \in CanonPairs(OrderCommits) |-> OrderMergeBase(h, p[1], p[2])]
    /\ InitCommon

\* Lines 147-158 and 162 with a sort that keeps only the first leaf.
SelectLeavesAnyOrderFirstOnly ==
    /\ pc = "prune_children"
    /\ stack = <<>>
    /\ LET found == {n \in DOMAIN nodes_to_children : nodes_to_children[n] = {}} IN
       leaves' \in {<<n>> : n \in found}
    /\ pc' = "prune_parents"
    /\ UNCHANGED <<input, memo, raw_children, nodes_to_children, nodes_to_parents,
                   worklist, stack, output, pass>>

\* Lines 147-158 and 162: the leaves in the order nodes_to_children iterates.
SelectLeavesAnyOrder ==
    /\ pc = "prune_children"
    /\ stack = <<>>
    /\ LET found == {n \in DOMAIN nodes_to_children : nodes_to_children[n] = {}} IN
       leaves' \in Orderings(found)
    /\ pc' = "prune_parents"
    /\ UNCHANGED <<input, memo, raw_children, nodes_to_children, nodes_to_parents,
                   worklist, stack, output, pass>>

NextOrder ==
    \/ Start
    \/ PopFront
    \/ ClosureStep
    \/ SelectRoot
    \/ PruneChildrenRecurse
    \/ PruneChildrenReturn
    \/ SelectLeavesAnyOrder
    \/ PruneParentsLeaf
    \/ PruneParentsRecurse
    \/ PruneParentsReturn
    \/ PrintGraph

SpecOrder == InitOrder /\ [][NextOrder]_vars


(***************************************************************************)
(* Branch resolution: Repository::try_from, read_branches and add_branch.  *)
(***************************************************************************)
\* The local branches and the remote-tracking branch of the repositories.
LocalBranches == {<<"main">>, <<"topic">>}
BranchNames == LocalBranches \cup {<<"origin", "main">>}

\* [branch "main"] tracks refs/heads/main of origin; [branch "topic"] has a
\* merge value that names no head.  An absent value is the empty set.
Sections ==
    { [name |-> <<"main">>, remote |-> {<<"origin">>},
       merge |-> {<<"refs", "heads", "main">>}],
      [name |-> <<"topic">>, remote |-> {<<"origin">>},
       merge |-> {<<"refs", "tags", "topic">>}] }

\* The sequences of distinct members of S, in file or argument order.
Lists(S) == UNION {Orderings(T) : T \in SUBSET S}

\* merge.strip_prefix("refs/heads/")
StripHeads(merge) ==
    IF Len(merge) >= 3 /\ SubSeq(merge, 1, 2) = <<"refs", "heads">>
    THEN {SubSeq(merge, 3, Len(merge))}
    ELSE {}

\* Lines 317-326: the remote-tracking branch the configuration gives for
\* branch, format!("{}/{}", remote, merge), if it gives one.
Upstream(branch) ==
    LET found == {i \in 1..Len(config) : config[i].name = branch}
    IN  IF found = {}
        THEN {}
        ELSE LET section == config[CHOOSE i \in found : TRUE]
             IN  {r \o m : r \in section.remote,
                           m \in UNION {StripHeads(v) : v \in section.merge}}

\* add_branch("heads", branch), with its nested add_branch("remotes", ..):
\* a rev-list that fails returns the error through every `?`.
AddBranch(branch) ==
    IF refs[branch] = NoBase
    THEN /\ unresolved' = branch
         /\ pc' = "failed"
         /\ UNCHANGED <<id_to_branches, branch_names>>
    ELSE LET tracked == IF remote THEN Upstream(branch) ELSE {}
         IN  IF tracked = {}
             THEN /\ branch_names' = Append(branch_names, branch)
                  /\ id_to_branches' = id_to_branches \cup {refs[branch]}
                  /\ UNCHANGED <<unresolved, pc>>
             ELSE LET up == CHOOSE u \in tracked : TRUE
                  IN  IF refs[up] = NoBase
                      THEN /\ branch_names' = Append(branch_names, branch)
                           /\ id_to_branches' = id_to_branches \cup {refs[branch]}
                           /\ unresolved' = up
                           /\ pc' = "failed"
                      ELSE /\ branch_names' = Append(Append(branch_names, branch), up)
                           /\ id_to_branches' =
                                 id_to_branches \cup {refs[branch], refs[up]}
                           /\ UNCHANGED <<unresolved, pc>>

\* What branch resolution leaves alone.
graph == <<nodes_to_children, nodes_to_parents, memo, raw_children, worklist,
           stack, leaves, output, pass>>

\* for branch in cli.branches { repo.add_branch("heads", branch)?; }
TryFromLoop ==
    /\ pc = "try_from"
    /\ pending # <<>>
    /\ AddBranch(Head(pending))
    /\ pending' = Tail(pending)
    /\ UNCHANGED <<oracle, refs, config, remote, cli_branches, graph>>

\* try_from returns Ok and run starts: if self.branch_names.is_empty() ..
RunEntry ==
    /\ pc = "try_from"
    /\ pending = <<>>
    /\ IF branch_names = <<>>
       THEN /\ pending' = [i \in 1..Len(config) |-> config[i].name]
            /\ pc' = "read_branches"
       ELSE /\ pending' = pending
            /\ pc' = "new"
    /\ UNCHANGED <<oracle, id_to_branches, refs, config, remote, cli_branches,
                   branch_names, unresolved, graph>>

\* for branch in branches { self.add_branch("heads", branch)?; }
ReadBranchesLoop ==
    /\ pc = "read_branches"
    /\ pending # <<>>
    /\ AddBranch(Head(pending))
    /\ pending' = Tail(pending)
    /\ UNCHANGED <<oracle, refs, config, remote, cli_branches, graph>>

\* read_branches returns Ok(()).
ReadBranchesReturn ==
    /\ pc = "read_branches"
    /\ pending = <<>>
    /\ pc' = "new"
    /\ UNCHANGED <<oracle, id_to_branches, resolution, graph>>

\* The program from main: the command line and the repository are any.
InitBranches ==
    /\ \E h \in Histories :
          oracle = [p \in CanonPairs(Commits) |-> GitMergeBase(h, p[1], p[2])]
    /\ refs \in [BranchNames -> Commits \cup {NoBase}]
    /\ config \in Lists(Sections)
    /\ remote \in BOOLEAN
    /\ cli_branches \in Lists(LocalBranches)
    /\ pending = cli_branches
    /\ branch_names = <<>>
    /\ id_to_branches = {}
    /\ unresolved = NoBranch
    /\ InitRun
    /\ pc = "try_from"

NextBranches ==
    \/ TryFromLoop
    \/ RunEntry
    \/ ReadBranchesLoop
    \/ ReadBranchesReturn
    \/ Next

SpecBranches == InitBranches /\ [][NextBranches]_vars


(***************************************************************************)
(* Vocabulary of the properties.                                           *)
(***************************************************************************)
Keys == DOMAIN nodes_to_children

\* What the oracle answered for the pair {a, b}, as the memo recorded it.
Answer(a, b) == merge_bases[Canon(a, b)]

\* The commits reachable from the members of S along zero or more edges.
RECURSIVE ReachableFrom(_, _)
ReachableFrom(map, S) ==
    LET T == S \cup UNION {map[n] : n \in S \cap DOMAIN map}
    IN  IF T = S THEN S ELSE ReachableFrom(map, T)

\* The commits reachable from n along one or more edges.
Descendants(map, n) == ReachableFrom(map, map[n])

\* The worklist is empty and the reducer has not started.
ClosureFinished == pc = "closure" /\ keys = {} /\ new_nodes = <<>> /\ pass = 1

\* prune_children(oldest) has returned.
ChildrenReduced ==
    \/ pc = "prune_children" /\ stack = <<>>
    \/ pc \in {"prune_parents", "done"}

\* The oracle has answered every pair of keys, and its answers are the
\* meet of an order on the keys: idempotent and associative (the
\* canonical pair makes them commutative).
MeetOracle ==
    /\ \A a \in Keys, b \in Keys :
          Canon(a, b) \in DOMAIN merge_bases /\ Answer(a, b) \in Keys
    /\ \A a \in Keys : Answer(a, a) = a
    /\ \A a \in Keys, b \in Keys, c \in Keys :
          Answer(a, Answer(b, c)) = Answer(Answer(a, b), c)

\* C1: with a meet oracle, once prune_children(root) has returned the
\* descendant map is the transitive reduction of the raw closure: every key
\* reaches the same keys as in the raw map, and no edge node->child has a
\* second path node->...->child of two or more edges.
C1_TransitiveReduction ==
    (pass = 1 /\ ChildrenReduced /\ MeetOracle) =>
        /\ \A n \in Keys :
              Descendants(nodes_to_children, n) = Descendants(raw_children, n)
        /\ \A n \in Keys : \A c \in nodes_to_children[n] :
              ~ \E m \in nodes_to_children[n] : c \in Descendants(nodes_to_children, m)

\* A closure under a meet oracle from which the pass has removed an edge.
C1_Witness ==
    /\ pass = 1 /\ ChildrenReduced /\ MeetOracle
    /\ \E n \in Keys : raw_children[n] \ nodes_to_children[n] # {}

\* C2: after a successful run, any two keys x and y are reachable, along
\* descendant-map edges, from one key z that also reaches their recorded
\* merge-base (z is the merge-base or an ancestor of it).
C2_CommonAncestorReachesBoth ==
    pc = "done" =>
        \A x \in Keys, y \in Keys :
            \E z \in Keys :
                {x, y, Answer(x, y)} \subseteq ReachableFrom(nodes_to_children, {z})

\* A finished run with two tips that are joined only through a third key.
C2_Witness ==
    /\ pc = "done"
    /\ \E x \in Keys, y \in Keys :
          /\ x # y
          /\ {x, y} \subseteq id_to_branches
          /\ Answer(x, y) \notin {x, y}
          /\ x \notin ReachableFrom(nodes_to_children, {y})
          /\ y \notin ReachableFrom(nodes_to_children, {x})

\* C3: in every state of a run, whatever the oracle answers, no commit is in
\* its own children set or in its own parents set.
C3_NoSelfEdges ==
    /\ \A n \in DOMAIN nodes_to_children : n \notin nodes_to_children[n]
    /\ \A n \in DOMAIN nodes_to_parents : n \notin nodes_to_parents[n]

\* The oracle returned an argument for a pair of different commits, and for a
\* pair (n, n) something other than n; the run went on to reduce the maps.
C3_Witness ==
    /\ pc \in {"prune_parents", "done"}
    /\ \E p \in DOMAIN merge_bases : p[1] # p[2] /\ merge_bases[p] = p[1]
    /\ \E p \in DOMAIN merge_bases : p[1] = p[2] /\ merge_bases[p] # p[1]

\* C4: when closure construction has finished and no reduction has begun, c
\* is a child of b in the descendant map exactly when b is a parent of c in
\* the ancestor map.
C4_RawMapsMirror ==
    ClosureFinished =>
        /\ \A b \in DOMAIN nodes_to_children : \A c \in nodes_to_children[b] :
              c \in DOMAIN nodes_to_parents /\ b \in nodes_to_parents[c]
        /\ \A c \in DOMAIN nodes_to_parents : \A b \in nodes_to_parents[c] :
              b \in DOMAIN nodes_to_children /\ c \in nodes_to_children[b]

\* A finished closure with a key that has two parents.
C4_Witness ==
    /\ ClosureFinished
    /\ \E c \in DOMAIN nodes_to_parents : Cardinality(nodes_to_parents[c]) >= 2


\* C5: with a meet oracle, once the reducer is started a second time on the
\* maps the first pass produced, no step changes the descendant map or the
\* ancestor map.
C5_SecondReductionChangesNothing ==
    [][(pass = 2 /\ MeetOracle) => UNCHANGED <<nodes_to_children, nodes_to_parents>>]_vars

\* The second pass has completed on a closure the first pass had pruned.
C5_Witness ==
    /\ pass = 2 /\ pc = "done" /\ MeetOracle
    /\ \E n \in Keys : raw_children[n] # nodes_to_children[n]

\* The failure of root selection (line 142), as opposed to one of the oracle.
NoRootError == pc = "failed" /\ keys = {} /\ new_nodes = <<>>

\* C6: with at least one tip and a meet oracle, when closure construction
\* has finished exactly one key has no parent, and root selection does not
\* fail.
C6_UniqueRoot ==
    (id_to_branches # {} /\ MeetOracle) =>
        /\ ClosureFinished =>
              Cardinality({n \in DOMAIN nodes_to_parents : nodes_to_parents[n] = {}}) = 1
        /\ ~NoRootError

\* A finished closure whose root is a discovered merge-base.
C6_Witness ==
    /\ ClosureFinished /\ MeetOracle
    /\ \E n \in Keys \ id_to_branches : nodes_to_parents[n] = {}

\* C7: git merge-base runs at most once for each unordered pair; every memo
\* key has the larger commit first; a memo entry never changes; and
\* merge_base(a, b) and merge_base(b, a) have returned the same commit.
C7_Memoization ==
    [][/\ \A p \in DOMAIN calls : calls'[p] <= 1
       /\ \A p \in DOMAIN merge_bases' : p[1] >= p[2]
       /\ \A p \in DOMAIN merge_bases :
             p \in DOMAIN merge_bases' /\ merge_bases'[p] = merge_bases[p]
       /\ \A r \in DOMAIN returned' :
             <<r[2], r[1]>> \in DOMAIN returned' =>
                 returned'[<<r[2], r[1]>>] = returned'[r]]_vars

\* A finished run that asked for some pair of different commits in both orders.
C7_Witness ==
    /\ pc = "done"
    /\ \E r \in DOMAIN returned :
          r[1] < r[2] /\ <<r[2], r[1]>> \in DOMAIN returned

\* git merge-base has been run for a pair and has failed.
OracleFailed == \E p \in DOMAIN calls : calls[p] >= 1 /\ p \notin DOMAIN merge_bases

\* C8: once the oracle has failed the run is in its error state, nothing has
\* been printed, no reduction has been started, and no further step (no
\* query, no pruning, no printing) is taken.
C8_OracleFailureAborts ==
    /\ [](OracleFailed =>
            /\ pc = "failed"
            /\ output = NoOutput
            /\ raw_children = EmptyMap /\ stack = <<>> /\ leaves = <<>>)
    /\ [][~OracleFailed]_vars

\* The oracle failed after edges had been recorded in both maps.
C8_Witness ==
    /\ OracleFailed
    /\ pc = "failed"
    /\ \E n \in Keys : nodes_to_children[n] # {}

\* C9 (as claimed): with no tips the run ends normally with both maps empty.
C9_EmptyTipsIsNormalResult ==
    id_to_branches = {} =>
        /\ pc \notin {"failed", "panic", "overflow"}
        /\ nodes_to_children = EmptyMap /\ nodes_to_parents = EmptyMap

\* C10: with a single tip A for which the oracle answers A, the run does not
\* fail and stops only when it is done; the maps are {A: {}} from the first
\* query on; the output has one node declaration and no edge line.
C10_SingleTip ==
    \A A \in Universe :
        (id_to_branches = {A} /\ <<A, A>> \in DOMAIN merge_bases /\ merge_bases[<<A, A>>] = A) =>
            /\ pc \notin {"failed", "panic", "overflow"}
            /\ ~ENABLED Next => pc = "done"
            /\ nodes_to_children = [n \in {A} |-> {}]
            /\ nodes_to_parents = [n \in {A} |-> {}]
            /\ pc = "done" =>
                  /\ output.header /\ output.footer
                  /\ Cardinality(output.nodes) = 1
                  /\ output.edges = {}

\* The run of a single tip has printed its graph.
C10_Witness ==
    /\ pc = "done"
    /\ Cardinality(id_to_branches) = 1
    /\ output.nodes = {<<0, n>> : n \in id_to_branches}

\* The closure loop has been left without an error: the reducer is about to
\* start, is running or has finished.
ClosureBuilt == ClosureFinished \/ pc \in {"prune_children", "prune_parents", "done"}

\* The entries of the two maps for tips A and B joined by C.
ForkChildren(A, B, C) == [n \in {A, B, C} |-> IF n = C THEN {A, B} ELSE {}]
ForkParents(A, B, C) == [n \in {A, B, C} |-> IF n = C THEN {} ELSE {C}]

\* C11: for two tips A and B whose common ancestor is a third commit C, in
\* whichever order they are dequeued, closure construction ends with the
\* maps {C: {A,B}, A: {}, B: {}} and {A: {C}, B: {C}, C: {}}; the root
\* prune_children starts from is C; no step of either pass changes a map and
\* the run does not fail.
C11_ForkOfTwoTips ==
    \A A \in Universe, B \in Universe, C \in Universe :
        ( /\ A # B /\ C \notin {A, B}
          /\ id_to_branches = {A, B}
          /\ {Canon(A, B), Canon(A, C), Canon(B, C)} \subseteq DOMAIN merge_bases
          /\ Answer(A, B) = C /\ Answer(A, C) = C /\ Answer(B, C) = C
          /\ keys = {} /\ new_nodes = <<>> ) =>
            /\ nodes_to_children = ForkChildren(A, B, C)
            /\ nodes_to_parents = ForkParents(A, B, C)
            /\ pc \notin {"failed", "panic", "overflow"}
            /\ (pc = "prune_children" /\ stack # <<>>) => stack[1].node = C

\* The run of two tips joined by a discovered third commit has finished.
C11_Witness ==
    /\ pc = "done"
    /\ Cardinality(id_to_branches) = 2
    /\ \E C \in Keys \ id_to_branches :
          \A n \in id_to_branches : nodes_to_parents[n] = {C}

SpecLive == Init /\ [][Next]_vars /\ WF_vars(Next)

\* The closure loop has been left: the worklist is empty or run has returned.
ClosureLoopLeft == pc \notin {"new", "closure"} \/ (pc = "closure" /\ keys = {} /\ new_nodes = <<>>)

\* What bounds the work left in the closure loop: the commits that can still
\* be appended plus those waiting, then the pairs left of this iteration.
Waiting == Cardinality(Universe \ DOMAIN nodes_to_children) + Len(new_nodes)

\* C13: the closure loop is left eventually.  Each outer iteration removes
\* one worklist entry; an inner iteration appends at most one commit, and
\* only one that was no key of the descendant map, so the commits not yet
\* keys plus the entries waiting never grow and shrink with every pop.
C13_ClosureTerminates ==
    /\ <>ClosureLoopLeft
    /\ [][(pc = "closure" /\ pc' = "closure") =>
            /\ Waiting' <= Waiting
            /\ new_node' # new_node => Waiting' < Waiting
            /\ Len(new_nodes') > Len(new_nodes) =>
                  /\ new_nodes' = Append(new_nodes, new_nodes'[Len(new_nodes')])
                  /\ new_nodes'[Len(new_nodes')] \notin DOMAIN nodes_to_children
            /\ new_node' = new_node => Cardinality(keys') < Cardinality(keys)]_vars

\* The loop has ended after a discovered merge-base went through the worklist.
C13_Witness ==
    /\ ClosureFinished
    /\ Keys \ id_to_branches # {}

\* The members of a sequence.
Range(seq) == {seq[i] : i \in 1..Len(seq)}

\* C14: a branch whose tip cannot be resolved aborts the run only if it was
\* named on the command line; a branch that was discovered from the
\* configuration and cannot be resolved is skipped, so the run is never
\* aborted on account of it.
C14_OnlyCliBranchFailureAborts ==
    (pc = "failed" /\ unresolved # NoBranch) => unresolved \in Range(cli_branches)

\* The edges of a map, and the edges the printed lines stand for.
EdgesOf(map) == {e \in (DOMAIN map) \X (UNION {map[n] : n \in DOMAIN map}) : e[2] \in map[e[1]]}
PrintedEdges ==
    {e \in Universe \X Universe :
        \E a \in output.nodes, b \in output.nodes :
            a[2] = e[1] /\ b[2] = e[2] /\ <<a[1], b[1]>> \in output.edges}

\* C15: no step of the ancestor-side reduction (the prune_parents calls over
\* all leaves) changes the descendant map, no step of the descendant-side
\* reduction changes the ancestor map, and the edges printed are exactly
\* the entries the descendant map had when its reduction finished.
C15_ReductionsAreFramed ==
    [][ /\ pc = "prune_parents" => nodes_to_children' = nodes_to_children
        /\ (pc = "prune_children" \/ pc' = "prune_children") =>
              nodes_to_parents' = nodes_to_parents
        /\ pc' = "done" =>
              /\ PrintedEdges' = EdgesOf(nodes_to_children)
              /\ Cardinality(output'.edges) = Cardinality(EdgesOf(nodes_to_children)) ]_vars

\* The graph was printed after the ancestor-side reduction had removed a
\* parent and the descendant-side reduction a child.
C15_Witness ==
    /\ pc = "done"
    /\ output.edges # {}
    /\ \E n \in Keys : nodes_to_parents[n] # {p \in Keys : n \in raw_children[p]}
    /\ nodes_to_children # raw_children

\* The ancestor map as closure construction left it: by then it mirrors the
\* descendant map, of which raw_children is the copy.
RawParents == [n \in DOMAIN raw_children |-> {p \in DOMAIN raw_children : n \in raw_children[p]}]

\* The ancestor-side reduction has pruned every leaf.
ParentsPassFinished == pc = "done" \/ (pc = "prune_parents" /\ stack = <<>> /\ leaves = <<>>)

\* C16: whatever the order in which the leaves are pruned and the parents
\* recursed into, with or without the sort by number of parents, the
\* ancestor map the ancestor-side reduction ends with is one and the same
\* function of the ancestor map it started from: every entry keeps the
\* parents that no other parent of the entry had as a parent at the start.
C16_ParentsIndependentOfLeafOrder ==
    ParentsPassFinished =>
        nodes_to_parents = [n \in DOMAIN RawParents |-> Retained(RawParents, RawParents[n])]

\* A leaf with more parents has been pruned, and has lost one, before a
\* leaf with fewer parents: the order the sort would not have produced.
C16_Witness ==
    /\ pc = "prune_parents"
    /\ stack = <<>>
    /\ leaves # <<>>
    /\ \E n \in Keys :
          /\ nodes_to_children[n] = {}
          /\ n \notin Range(leaves)
          /\ Cardinality(RawParents[n]) > SortKey(leaves[1])
          /\ nodes_to_parents[n] # RawParents[n]

\* The least set that contains S and with two members their recorded
\* merge-base.
RECURSIVE OracleClosure(_)
OracleClosure(S) ==
    LET T == S \cup {Answer(x, y) : x \in S, y \in S}
    IN  IF T = S THEN S ELSE OracleClosure(T)

\* C17: when closure construction finishes, every pair of keys has been
\* queried and its merge-base b is a key whose children contain each of
\* the two that is not b; the key set is the least set that contains the
\* tips and is closed under the oracle; and every entry of the descendant
\* map is determined by the tips and the answers alone, not by the order in
\* which tips were enqueued or keys iterated.
C17_LeastClosure ==
    ClosureFinished =>
        /\ \A x \in Keys, y \in Keys :
              /\ Canon(x, y) \in DOMAIN merge_bases
              /\ Answer(x, y) \in Keys
              /\ x # Answer(x, y) => x \in nodes_to_children[Answer(x, y)]
              /\ y # Answer(x, y) => y \in nodes_to_children[Answer(x, y)]
        /\ Keys = OracleClosure(id_to_branches)
        /\ nodes_to_children =
              [b \in OracleClosure(id_to_branches) |->
                  {x \in OracleClosure(id_to_branches) \ {b} :
                      \E y \in OracleClosure(id_to_branches) : Answer(x, y) = b}]

\* Two tips whose merge-base was discovered after one of them had been
\* dequeued, and has since been paired with both.
C17_Witness ==
    /\ ClosureFinished
    /\ \E x \in id_to_branches, y \in id_to_branches :
          /\ x # y
          /\ Answer(x, y) \notin id_to_branches
          /\ <<Answer(x, y), x>> \in DOMAIN returned
          /\ <<Answer(x, y), y>> \in DOMAIN returned

\* The keys without a parent.
Parentless == {n \in DOMAIN nodes_to_parents : nodes_to_parents[n] = {}}

\* C18: whatever the oracle answers, as long as it answers: while the
\* closure is built every answered query has given each argument that
\* differs from the answer the answer as a parent, and when closure
\* construction finishes at most one key has no parent, so that root
\* selection has no choice to make.
C18_AtMostOneParentless ==
    /\ pc = "closure" =>
          \A q \in DOMAIN returned :
              (returned[q] # NoBase /\ q[1] # returned[q]) =>
                  q[1] \in DOMAIN nodes_to_parents /\ returned[q] \in nodes_to_parents[q[1]]
    /\ ClosureFinished => Cardinality(Parentless) <= 1

\* A finished closure of two keys under an oracle that is no meet.
C18_Witness ==
    /\ ClosureFinished
    /\ ~MeetOracle
    /\ Cardinality(Keys) >= 2
    /\ Cardinality(Parentless) = 1

\* C19: with a meet oracle, once both reduction passes have completed the
\* reduced maps mirror each other: for all keys p and c, c is a child of p
\* in the descendant map exactly if p is a parent of c in the ancestor map.
C19_ReducedMapsMirror ==
    (ParentsPassFinished /\ MeetOracle) =>
        /\ DOMAIN nodes_to_children = DOMAIN nodes_to_parents
        /\ \A p \in Keys, c \in Keys :
              c \in nodes_to_children[p] <=> p \in nodes_to_parents[c]

\* Both passes have completed, and each has removed an edge.
C19_Witness ==
    /\ ParentsPassFinished
    /\ MeetOracle
    /\ \E c \in Keys : nodes_to_parents[c] # RawParents[c]
    /\ \E p \in Keys : nodes_to_children[p] # raw_children[p]

\* The members of the sets of a map.
Members(map) == UNION {map[n] : n \in DOMAIN map}

\* C20: from the end of closure construction to the end of the output every
\* member of a children set or a parents set, and every commit a pending
\* recursive call is still to visit, is a key of both maps; no lookup of
\* prune_children, prune_parents or the printer misses; the recursion stays
\* within the stack; and both passes come to their end, so that the run ends
\* with the graph printed or with the error of root selection.
C20_LookupsSucceedAndPassesTerminate ==
    /\ [](ClosureBuilt =>
            /\ Members(nodes_to_children) \cup Members(nodes_to_parents)
                  \subseteq (DOMAIN nodes_to_children) \cap (DOMAIN nodes_to_parents)
            /\ \A i \in 1..Len(stack) :
                  {stack[i].node} \cup stack[i].todo
                      \subseteq (DOMAIN nodes_to_children) \cap (DOMAIN nodes_to_parents)
            /\ Range(leaves) \subseteq DOMAIN nodes_to_parents)
    /\ [](pc \notin {"panic", "overflow"})
    /\ (ClosureFinished ~> (pc = "done" \/ NoRootError))

\* prune_parents has recursed from a leaf into a discovered merge-base and
\* found its entry.
C20_Witness ==
    /\ pc = "prune_parents"
    /\ Len(stack) >= 2
    /\ stack[Len(stack)].node \notin id_to_branches
    /\ stack[Len(stack)].node \in DOMAIN nodes_to_parents

====
